---- MODULE Spec2Model ----
(***************************************************************************)
(* A model of xdress/doxygen.py: the doxygen plugin of xdress.  The plugin *)
(* writes a doxygen configuration file, runs doxygen, parses the XML it    *)
(* leaves on disk and writes numpydoc docstrings into the description      *)
(* registry (rc.env) of the host pipeline.                                 *)
(*                                                                         *)
(* Python text is modelled by TLA+ strings, character by character.  The   *)
(* module is Python 2 code (filter() returns a list, line 772-776), and    *)
(* the model follows Python 2 semantics.                                   *)
(***************************************************************************)
EXTENDS Integers, Sequences, FiniteSets, TLC

VARIABLES
    \* ---- XDressPlugin.execute -------------------------------------------
    pc,            \* position of execute
    rc,            \* run control: package, builddir, sourcedir, doxyfile_name,
                   \* doxygen_config, classes, functions
    env,           \* rc.env, the registry of the host pipeline
    env0,          \* the registry as it was when execute was called
    world,         \* what doxygen leaves on disk when it succeeds
    disk,          \* the files on disk: the doxyfile and the xml directory
    classes,       \* local `classes` of execute (class index)
    funcs,         \* local `funcs` of execute (free-function index)
    ci,            \* position of the loop over rc.classes
    mi,            \* position of the loop over rc_methods
    fi,            \* position of the loop over rc.functions
    parsed,        \* local `parsed` of execute (the parsed class)
    log,           \* the operations execute has performed, in order
    \* ---- merge_configs / setup / dox_dict2str ---------------------------
    cpc,           \* position of the configuration pipeline
    cdefault,      \* the default table
    cuser,         \* the user's overrides
    cfg,           \* rc.doxygen_config
    corder,        \* the order in which dox_dict2str iterated the mapping
    ctext,         \* the text dox_dict2str returned
    \* ---- one call of a module-level function ----------------------------
    fpc,           \* "called" before the function runs, "returned" after
    fcall,         \* the call: [fn |-> name of the function, arg |-> argument]
    fret           \* what the call returned or raised

vars == <<pc, rc, env, env0, world, disk, classes, funcs, ci, mi, fi, parsed,
          log, cpc, cdefault, cuser, cfg, corder, ctext, fpc, fcall, fret>>

execVars == <<pc, rc, env, env0, world, disk, classes, funcs, ci, mi, fi,
              parsed, log>>
cfgVars == <<cpc, cdefault, cuser, cfg, corder, ctext>>
fnVars == <<fpc, fcall, fret>>

-----------------------------------------------------------------------------
(* Bounds of the model.                                                    *)

MaxUserKeys == 2      \* keys the user overrides
MaxClasses == 2       \* length of rc.classes
MaxFunctions == 2     \* length of rc.functions
MaxMembers == 2       \* documented methods of class A besides its constructor
MaxListed == 3        \* length of the method list of a class description
MaxArgs == 2          \* parameters of a function description
MaxRets == 2          \* return types of a function description
MaxItems == 2         \* items of the parameter list of a function fragment
MaxWords == 3         \* words of a text given to a wrapper
MaxOverloads == 3     \* function members of a namespace of an index document
MaxSameName == 12     \* members of one name in a section of a class file

-----------------------------------------------------------------------------
(* Python values.                                                          *)

\* Python's None where a text is expected (an absent .text of an element).
None == "<None>"

\* isinstance(v, str) for a value that is a text (a str, or None) or a list:
\* TLC writes a text, and nothing else, between double quotes.
isinstance_str(v) == SubSeq(ToString(v), 1, 1) = "\""

\* Results of operations that can raise.
Ok(v) == [ok |-> TRUE, val |-> v]
Raise(e) == [ok |-> FALSE, err |-> e]

\* The set of all sequences over S of length at most n.
SeqsUpTo(S, n) == UNION {[1..k -> S] : k \in 0..n}

\* The empty dict.
EmptyDict == [k \in {} |-> ""]

\* dict.update: the entries of new replace or extend those of d.
Update(d, new) ==
    [k \in DOMAIN d \cup DOMAIN new |-> IF k \in DOMAIN new THEN new[k] ELSE d[k]]

-----------------------------------------------------------------------------
(* Strings.                                                                *)

CharAt(s, i) == SubSeq(s, i, i)

\* str.startswith
StartsWith(s, p) == Len(p) <= Len(s) /\ SubSeq(s, 1, Len(p)) = p

\* `p in s` for two strings
Contains(s, p) ==
    \E i \in 1..(Len(s) - Len(p) + 1) : SubSeq(s, i, i + Len(p) - 1) = p

\* string.whitespace
Whitespace == {" ", "\t", "\n", "\r", "\f"}

IsSpace(c) == c \in Whitespace

\* str.isspace() of a non-empty string, and '' counts as blank for strip() == ''
AllSpace(s) == \A i \in 1..Len(s) : IsSpace(CharAt(s, i))

\* The smallest and the largest member of a non-empty set of integers.
Min(S) == CHOOSE x \in S : \A y \in S : x <= y
Max(S) == CHOOSE x \in S : \A y \in S : x >= y

\* The positions of s that hold no whitespace.
NonSpace(s) == {i \in 1..Len(s) : ~IsSpace(CharAt(s, i))}

\* str.strip()
Strip(s) ==
    IF NonSpace(s) = {} THEN "" ELSE SubSeq(s, Min(NonSpace(s)), Max(NonSpace(s)))

LowerCase == "abcdefghijklmnopqrstuvwxyz"
UpperCase == "ABCDEFGHIJKLMNOPQRSTUVWXYZ"

UpperChar(c) ==
    IF \E i \in 1..26 : CharAt(LowerCase, i) = c
    THEN CharAt(UpperCase, CHOOSE i \in 1..26 : CharAt(LowerCase, i) = c)
    ELSE c

\* str.upper()
RECURSIVE Upper(_)
Upper(s) ==
    IF Len(s) = 0 THEN ""
    ELSE IF Len(s) = 1 THEN UpperChar(s)
    ELSE LET h == Len(s) \div 2 IN
         Upper(SubSeq(s, 1, h)) \o Upper(SubSeq(s, h + 1, Len(s)))

\* str(n) of a natural number
Digit(d) == CharAt("0123456789", d + 1)

RECURSIVE Str(_)
Str(n) == IF n < 10 THEN Digit(n) ELSE Str(n \div 10) \o Digit(n % 10)

\* sep.join(parts)
RECURSIVE Join(_, _)
Join(sep, parts) ==
    IF parts = <<>> THEN ""
    ELSE IF Len(parts) = 1 THEN parts[1]
    ELSE parts[1] \o sep \o Join(sep, Tail(parts))

\* 'c' * n
RECURSIVE Repeat(_, _)
Repeat(c, n) ==
    IF n <= 0 THEN ""
    ELSE IF n = 1 THEN c
    ELSE Repeat(c, n \div 2) \o Repeat(c, n - (n \div 2))

\* the position of the first "\n" of s, 0 when there is none
FindNewline(s) ==
    LET N == {i \in 1..Len(s) : CharAt(s, i) = "\n"} IN
    IF N = {} THEN 0 ELSE Min(N)

\* str.splitlines(): the lines of s, without the line ends; a final line end
\* opens no further line.
RECURSIVE SplitLines(_)
SplitLines(s) ==
    IF s = "" THEN <<>>
    ELSE LET n == FindNewline(s) IN
         IF n = 0 THEN <<s>>
         ELSE <<SubSeq(s, 1, n - 1)>> \o SplitLines(SubSeq(s, n + 1, Len(s)))

-----------------------------------------------------------------------------
(* merge_configs, XDressPlugin.setup and dox_dict2str.                     *)
(* A configuration value is a Python bool, [bool |-> b], or a string,      *)
(* [str |-> s].                                                            *)

BoolV(b) == [bool |-> b]
StrV(s) == [str |-> s]

IsTrue(v) == "bool" \in DOMAIN v /\ v.bool
IsFalse(v) == "bool" \in DOMAIN v /\ ~v.bool

\* '{value}'.format(value=v) of a value that is neither True nor False
Format(v) == IF "bool" \in DOMAIN v THEN (IF v.bool THEN "True" ELSE "False") ELSE v.str

merge_configs(old, new) == Update(old, new)

rc_params(package, builddir, sourcedir) ==
    [k \in {"PROJECT_NAME", "OUTPUT_DIRECTORY", "INPUT"} |->
        IF k = "PROJECT_NAME" THEN StrV(package)
        ELSE IF k = "OUTPUT_DIRECTORY" THEN StrV(builddir)
        ELSE StrV(sourcedir)]

\* A setup that keeps what the configuration already holds for the three keys.
setup_keeps_config(config, package, builddir, sourcedir) ==
    Update(rc_params(package, builddir, sourcedir), config)

\* setup: rc.doxygen_config.update(rc_params)
setup(config, package, builddir, sourcedir) ==
    Update(config, rc_params(package, builddir, sourcedir))

\* One line of dox_dict2str: new_line.format(option=key.upper(), value=_value)
new_line(key, value) ==
    LET _value == IF IsTrue(value) THEN "YES"
                  ELSE IF IsFalse(value) THEN "NO"
                  ELSE Format(value)
    IN Upper(key) \o " = " \o _value \o "\n"

RECURSIVE dox_lines(_, _)
dox_lines(dox_dict, order) ==
    IF order = <<>> THEN ""
    ELSE new_line(order[1], dox_dict[order[1]]) \o dox_lines(dox_dict, Tail(order))

\* dox_dict2str; `order` is the order in which dox_dict.items() yields the keys
\* (the iteration order of a Python 2 dict is arbitrary).
dox_dict2str(dox_dict, order) == Strip(dox_lines(dox_dict, order))

\* All orders in which a dict with the given keys can be iterated.
Orders(keys) ==
    {o \in [1..Cardinality(keys) -> keys] : \A i, j \in DOMAIN o : i # j => o[i] # o[j]}

-----------------------------------------------------------------------------
(* textwrap.TextWrapper, as configured at lines 120-130: expand_tabs,      *)
(* replace_whitespace, drop_whitespace and break_long_words keep their     *)
(* defaults (all true).  The texts of the model hold no tab and no         *)
(* hyphenated word, so chunks are maximal runs of blanks or of non-blanks. *)

wrap_68 == [width |-> 68, initial_indent |-> "", subsequent_indent |-> ""]
\* A method wrapper as wide as a line of 72 columns.
wrap_72 == [width |-> 72, initial_indent |-> "", subsequent_indent |-> ""]
wrap_64 == [width |-> 64, initial_indent |-> "", subsequent_indent |-> ""]
attrib_wrap == [width |-> 64, initial_indent |-> "", subsequent_indent |-> "    "]

\* TextWrapper._munge_whitespace: every whitespace character becomes a blank.
RECURSIVE MungeWhitespace(_)
MungeWhitespace(s) ==
    IF Len(s) = 0 THEN ""
    ELSE IF Len(s) = 1 THEN (IF IsSpace(s) THEN " " ELSE s)
    ELSE LET h == Len(s) \div 2 IN
         MungeWhitespace(SubSeq(s, 1, h)) \o MungeWhitespace(SubSeq(s, h + 1, Len(s)))

\* TextWrapper._split: the chunks are the maximal runs of blanks and of
\* non-blanks of t; Bounds(t) holds the position at which each chunk starts.
Bounds(t) ==
    {i \in 1..Len(t) : i = 1 \/ (CharAt(t, i) = " ") # (CharAt(t, i - 1) = " ")}

\* The end (exclusive) of the chunk that starts at or holds position p.
ChunkEnd(t, p) ==
    LET later == {b \in Bounds(t) : b > p} IN
    IF later = {} THEN Len(t) + 1 ELSE Min(later)

\* TextWrapper._wrap_chunks.  The chunks still to place are those of
\* t[p..]: the (rest of the) chunk at p, then the chunks after it.  A line is
\* a stretch of t, because the chunks of a line are consecutive; its length
\* cur_len is a difference of positions.  `lines` are the lines finished so far.

\* The indent of the line to build.
Indent(lines, w) == IF lines # <<>> THEN w.subsequent_indent ELSE w.initial_indent

\* The first chunk of a line is dropped when it is whitespace, unless no line
\* was started yet.
LineStart(t, p, lines) ==
    IF CharAt(t, p) = " " /\ lines # <<>> THEN ChunkEnd(t, p) ELSE p

\* Chunks taken while they fit a line one column wider.
FitOneMore(t, start, width) ==
    LET ends == {e \in {b \in Bounds(t) : b > start} \cup {Len(t) + 1} :
                     e - start <= width + 1}
    IN IF ends = {} THEN start ELSE Max(ends)

\* The chunks are taken while they fit (cur_len + l <= width): the position
\* after the last chunk taken.
Fit(t, start, width) ==
    LET ends == {e \in {b \in Bounds(t) : b > start} \cup {Len(t) + 1} :
                     e - start <= width}
    IN IF ends = {} THEN start ELSE Max(ends)

\* _handle_long_word applies: the next chunk fits on no line and is broken.
IsLong(t, fit, width) == fit <= Len(t) /\ ChunkEnd(t, fit) - fit > width

\* The position after the last character placed on the line.
LineStop(t, start, fit, width) ==
    IF IsLong(t, fit, width)
    THEN fit + (IF width < 1 THEN 1 ELSE width - (fit - start))
    ELSE fit

\* The last chunk of the line is dropped when it is whitespace: the position
\* after the last character kept.
LineCut(t, start, fit, stop, width) ==
    LET lastStart == IF IsLong(t, fit, width) THEN fit
                     ELSE Max({b \in Bounds(t) \cup {start} : b < fit} \cup {start})
    IN IF stop > start /\ (IsLong(t, fit, width) \/ fit > start)
          /\ AllSpace(SubSeq(t, lastStart, stop - 1))
       THEN lastStart ELSE stop

\* lines.append(indent + ''.join(cur_line)) if cur_line
AddLine(lines, indent, line) ==
    IF line # "" THEN Append(lines, indent \o line) ELSE lines

RECURSIVE WrapChunks(_, _, _, _)

EndLine(t, lines, w, indent, start, stop, cut) ==
    WrapChunks(t, stop, AddLine(lines, indent, SubSeq(t, start, cut - 1)), w)

TakeChunks(t, lines, w, indent, start, fit, width) ==
    EndLine(t, lines, w, indent, start, LineStop(t, start, fit, width),
            LineCut(t, start, fit, LineStop(t, start, fit, width), width))

PlaceLine(t, lines, w, indent, start, width) ==
    IF start > Len(t) THEN lines
    ELSE TakeChunks(t, lines, w, indent, start, Fit(t, start, width), width)

WrapChunks(t, p, lines, w) ==
    IF p > Len(t) THEN lines
    ELSE PlaceLine(t, lines, w, Indent(lines, w), LineStart(t, p, lines),
                   w.width - Len(Indent(lines, w)))

\* TextWrapper.wrap
Wrap(w, text) == WrapChunks(MungeWhitespace(text), 1, <<>>, w)

\* TextWrapper.fill
Fill(w, text) == Join("\n", Wrap(w, text))

-----------------------------------------------------------------------------
(* Text helpers of the renderers.                                          *)

\* '%s' % x
Pct(x) == IF x = None THEN "None" ELSE x

\* The characters of C++ member names (digits, ':', letters, '_', '~') in
\* code order; Python compares str values character by character in this order.
Ascii == "0123456789:ABCDEFGHIJKLMNOPQRSTUVWXYZ_abcdefghijklmnopqrstuvwxyz~"

Ord(c) == CHOOSE i \in 1..Len(Ascii) : CharAt(Ascii, i) = c

\* a < b for two str values
StrLess(a, b) ==
    LET n == IF Len(a) < Len(b) THEN Len(a) ELSE Len(b)
        D == {i \in 1..n : CharAt(a, i) # CharAt(b, i)}
    IN IF D = {} THEN Len(a) < Len(b)
       ELSE Ord(CharAt(a, Min(D))) < Ord(CharAt(b, Min(D)))

\* sorted(S) of a set of str values
RECURSIVE Sorted(_)
Sorted(S) ==
    IF S = {} THEN <<>>
    ELSE LET least == CHOOSE x \in S : \A y \in S \ {x} : StrLess(x, y)
         IN <<least>> \o Sorted(S \ {least})

\* s.split(d), d not empty
RECURSIVE Split(_, _)
Split(s, d) ==
    LET P == {i \in 1..(Len(s) - Len(d) + 1) : SubSeq(s, i, i + Len(d) - 1) = d} IN
    IF P = {} THEN <<s>>
    ELSE <<SubSeq(s, 1, Min(P) - 1)>> \o Split(SubSeq(s, Min(P) + Len(d), Len(s)), d)

Last(seq) == seq[Len(seq)]
Front(seq) == SubSeq(seq, 1, Len(seq) - 1)

\* The elements of a sequence, as a set.
Range(seq) == {seq[i] : i \in DOMAIN seq}

\* dict(items) of the items of the mappings dicts[keys[1]], dicts[keys[2]], ...
\* in this order: a later item replaces an earlier one of the same name.
RECURSIVE Flatten(_, _)
Flatten(dicts, keys) ==
    IF keys = <<>> THEN EmptyDict
    ELSE Update(Flatten(dicts, Front(keys)), dicts[Last(keys)])

-----------------------------------------------------------------------------
(* func_docstr (lines 241-347).                                            *)
(* A member description (mem_dict) is a record.  Its args are the items of *)
(* the Python dict in iteration order, each [name, type] or [name, type,   *)
(* desc]; args = None is the empty sequence (line 698 maps one to the      *)
(* other).                                                                 *)

_overload_msg(f_type) ==
    "\nThis " \o f_type \o " was overloaded in the C-based source. To overcome this we\n"
    \o "ill put the relevant docstring for each version below. Each version will begin\n"
    \o "with a line of # characters.\n"

\* lines 279-283: the text of one parameter
ArgStr(a) ==
    a.name \o " : " \o Pct(a.type)
    \o (IF "desc" \in DOMAIN a THEN "\n" \o Pct(a.desc) ELSE "")

\* lines 274-283
Params(args) == IF args = <<>> THEN <<"None">> ELSE [i \in DOMAIN args |-> ArgStr(args[i])]

\* A numbering that never advances: every entry is res1.
RetsAllFirst(returning) ==
    IF isinstance_str(returning)
    THEN IF returning = None THEN <<"None">> ELSE <<"res1 : " \o returning>>
    ELSE [i \in DOMAIN returning |-> "res1 : " \o returning[i]]

\* lines 285-296: ret_type is None, a str (the one entry res1) or a sequence
\* of str (res1, res2, ...)
Rets(returning) ==
    IF isinstance_str(returning)
    THEN IF returning = None THEN <<"None">> ELSE <<"res1 : " \o returning>>
    ELSE [i \in DOMAIN returning |-> "res" \o Str(i) \o " : " \o returning[i]]

\* lines 310-322: one parameter of the Parameters section
ParamBlock(wrapper, p) ==
    LET lines == SplitLines(p)
        more == [i \in 1..(Len(lines) - 1) |-> Fill(wrapper, lines[i + 1])]
    IN Fill(wrapper, lines[1]) \o "\n" \o Join("", more)
       \o (IF Len(lines) > 1 THEN "\n\n" ELSE "\n")

\* lines 332-338: one entry of the Returns section
RetBlock(wrapper, r) ==
    LET lines == SplitLines(r)
        more == [i \in 1..(Len(lines) - 1) |-> Fill(wrapper, lines[i + 1])]
    IN Fill(wrapper, lines[1]) \o "\n" \o Join("", more) \o "\n"

func_docstr(func_dict, is_method) ==
    LET wrapper == IF is_method THEN wrap_64 ELSE wrap_68
        detailed_desc == func_dict.detaileddescription
        brief_desc == func_dict.briefdescription
        desc == Strip(brief_desc \o "\n\n" \o detailed_desc)
        params == Params(func_dict.args)
        rets == Rets(func_dict.ret_type)
    IN IF detailed_desc = None
       THEN Raise("TypeError")       \* '\n\n'.join of a None
       ELSE Ok(Fill(wrapper, desc)
               \o "\n\n" \o Fill(wrapper, "Parameters")
               \o "\n" \o Fill(wrapper, "----------") \o "\n"
               \o Join("", [i \in DOMAIN params |-> ParamBlock(wrapper, params[i])])
               \o Fill(wrapper, "Returns")
               \o "\n" \o Fill(wrapper, "-------") \o "\n"
               \o Join("", [i \in DOMAIN rets |-> RetBlock(wrapper, rets[i])]))

-----------------------------------------------------------------------------
(* class_docstr (lines 144-238).  ivar_keys and func_grp_keys are the keys *)
(* of class_dict that contain 'attrib' and 'func', in the order in which   *)
(* class_dict.keys() yields them.                                          *)

\* lines 195-200: the line of one attribute
VarLine(i, ivars) ==
    LET desc == ivars[i].briefdescription \o " " \o ivars[i].detaileddescription
    IN Fill(attrib_wrap, i \o " (" \o Pct(ivars[i].type) \o ") : " \o Strip(desc)) \o "\n"

\* lines 215-222: the line of one method
MethodLine(i, funcs_, desc_funcs) ==
    LET desc == funcs_[i].briefdescription
        fun_msg == IF Len(desc) = 0 \/ ~desc_funcs THEN i ELSE i \o " : " \o Strip(desc)
    IN Fill(attrib_wrap, fun_msg) \o "\n"

\* A listing that sorts and leaves the last name where it is.
MethodOrderSorted(names) == Sorted(names)

\* lines 209-213: methods.sort(); methods.insert(1, methods.pop())
MethodOrder(names) ==
    LET sorted == Sorted(names)
        rest == Front(sorted)
    IN IF rest = <<>> THEN sorted
       ELSE <<rest[1], Last(sorted)>> \o Tail(rest)

class_docstr(class_dict, desc_funcs, ivar_keys, func_grp_keys) ==
    LET class_name == Last(Split(class_dict.kls_name, "::"))
        methods == Range(class_dict.members.methods)
        variables == class_dict.members.variables
        ivars == Flatten(class_dict, ivar_keys)
        funcs_ == Flatten(class_dict, func_grp_keys)
        cls_msg == class_dict["public-func"][class_name].detaileddescription
        ordered == MethodOrder(methods)
    IN IF "public-func" \notin DOMAIN class_dict
            \/ class_name \notin DOMAIN class_dict["public-func"]
       THEN Raise("KeyError")                                   \* line 166
       ELSE IF cls_msg = None THEN Raise("AttributeError")      \* line 168
       ELSE IF \E i \in DOMAIN variables : variables[i] \notin DOMAIN ivars
       THEN Raise("KeyError")                                   \* line 196
       ELSE IF \E i \in DOMAIN variables : ivars[variables[i]].detaileddescription = None
       THEN Raise("TypeError")                                  \* line 197
       ELSE IF methods = {} THEN Raise("IndexError")            \* line 213
       ELSE IF \E i \in methods : i \notin DOMAIN funcs_
       THEN Raise("KeyError")                                   \* line 216
       ELSE Ok(Fill(wrap_68, cls_msg)
               \o "\n\n" \o Fill(wrap_68, "Attributes")
               \o "\n" \o Fill(wrap_68, "----------") \o "\n"
               \o Join("", [i \in DOMAIN variables |-> VarLine(variables[i], ivars)])
               \o "\n\n" \o Fill(wrap_68, "Methods")
               \o "\n" \o Fill(wrap_68, "-------") \o "\n"
               \o Join("", [i \in DOMAIN ordered |-> MethodLine(ordered[i], funcs_, desc_funcs)])
               \o "\n" \o Fill(wrap_68, "Notes")
               \o "\n" \o Fill(wrap_68, "-----") \o "\n"
               \o Fill(wrap_68, "This class was defined in " \o class_dict.file_name)
               \o "\n\n"
               \o Fill(wrap_68, "The class is found in the \"" \o class_dict.namespace
                                 \o "\" namespace"))

-----------------------------------------------------------------------------
(* The XML doxygen writes, as the parsers read it.                         *)
(*   index.xml : a sequence of <compound> elements [kind, name, refid,     *)
(*               members], members a sequence of <member> [kind, name,     *)
(*               refid];                                                   *)
(*   a compound file : a <compounddef> [compoundname, location, sections], *)
(*               sections a sequence of <sectiondef> [kind, members],      *)
(*               members a sequence of <memberdef> [kind, id, name,        *)
(*               briefdescription, detaileddescription, type, param,       *)
(*               argsstring, definition];                                  *)
(*   a description is the sequence of its <para> elements [text,           *)
(*               parameterlist]; parameterlist is <<>> when the paragraph  *)
(*               has no <parameterlist>, else <<items>> with items a       *)
(*               sequence of <parameteritem> [name, desc].                 *)
(* A .text is a string, or None for an element without text.               *)

sep == "/"

\* A parameter list read with the name in place of the description.
RECURSIVE ArgDictNames(_)
ArgDictNames(items) ==
    IF items = <<>> THEN EmptyDict
    ELSE Update(ArgDictNames(Front(items)),
                [k \in {Last(items).name} |-> Last(items).name])

\* lines 671-674: the parameter list of the second paragraph, as a dict
RECURSIVE ArgDict(_)
ArgDict(items) ==
    IF items = <<>> THEN EmptyDict
    ELSE Update(ArgDict(Front(items)),
                [k \in {Last(items).name} |-> Last(items).desc])

\* Declared parameters that all carry a description.
ArgsAllDescribed(params, has_descs, arg_dict) ==
    [i \in DOMAIN params |->
        [name |-> params[i].declname, type |-> params[i].type, desc |-> ""]]

\* lines 687-696: the declared parameters; a parameter declared again under
\* the same name replaces the earlier entry.
RECURSIVE Args(_, _, _)
Args(params, has_descs, arg_dict) ==
    IF params = <<>> THEN <<>>
    ELSE LET param == Last(params)
             before == SelectSeq(Args(Front(params), has_descs, arg_dict),
                                 LAMBDA a : a.name # param.declname)
             entry == IF has_descs
                      THEN [name |-> param.declname, type |-> param.type,
                            desc |-> arg_dict[param.declname]]
                      ELSE [name |-> param.declname, type |-> param.type]
         IN Append(before, entry)

_parse_func(f_xml) ==
    LET dd_paras == f_xml.detaileddescription
        num_dd_paras == Len(dd_paras)
        mem_ddstr == IF num_dd_paras \in {1, 2} THEN dd_paras[1].text ELSE ""
        has_descs == num_dd_paras = 2
        arg_dict == IF has_descs THEN ArgDict(dd_paras[2].parameterlist[1]) ELSE EmptyDict
    IN IF has_descs /\ dd_paras[2].parameterlist = <<>>
       THEN Raise("AttributeError")                              \* line 671
       ELSE IF has_descs /\ \E i \in DOMAIN f_xml.param :
                               f_xml.param[i].declname \notin DOMAIN arg_dict
       THEN Raise("KeyError")                                    \* line 696
       ELSE Ok([detaileddescription |-> mem_ddstr,
                ret_type |-> f_xml.type,
                args |-> Args(f_xml.param, has_descs, arg_dict),
                arg_string |-> f_xml.argsstring])

_parse_variable(v_xml) ==
    LET mem_dd == v_xml.detaileddescription
        mem_ddstr == IF mem_dd = <<>> THEN "" ELSE mem_dd[1].text
    IN Ok([detaileddescription |-> mem_ddstr, type |-> v_xml.type])

_parse_common(xml, the_dict) ==
    LET mem_bd == xml.briefdescription
        mem_bdstr == IF mem_bd = <<>> \/ mem_bd[1].text = None THEN "" ELSE mem_bd[1].text
    IN Update(the_dict, [briefdescription |-> mem_bdstr, definition |-> xml.definition])

\* lines 881-888: the key under which a member is stored
RECURSIVE MemberKey(_, _, _)
MemberKey(mem_name, i, keys) ==
    IF mem_name \notin keys THEN mem_name
    ELSE MemberKey((IF i > 1 THEN Front(mem_name) ELSE mem_name) \o Str(i), i + 1, keys)

\* lines 865-890: the members of one section (the memberdefs of the model are
\* functions and variables).  The result is Ok(sec_dict) or the exception a
\* member raised.
RECURSIVE SectionDict(_)
SectionDict(mems) ==
    IF mems = <<>> THEN Ok(EmptyDict)
    ELSE LET before == SectionDict(Front(mems))
             mem == Last(mems)
             specific == IF mem.kind = "function" THEN _parse_func(mem)
                         ELSE _parse_variable(mem)
             mem_name == MemberKey(mem.name, 1, DOMAIN before.val)
         IN IF ~before.ok THEN before
            ELSE IF ~specific.ok THEN specific
            ELSE Ok(Update(before.val,
                           [k \in {mem_name} |-> _parse_common(mem, specific.val)]))

\* The last section of each kind: data[sec_name] = sec_dict (line 892).
SectionOf(sections, kind) ==
    sections[Max({i \in DOMAIN sections : sections[i].kind = kind})]

\* parse_class (lines 852-906).  files are the files on disk; fix_xml_links
\* and etree.parse open class_dict['file_name'] + '.xml' and raise IOError
\* when there is no such file.
parse_class(class_dict, files) ==
    LET fn == class_dict.file_name \o ".xml"
        compd_def == files[fn]
        kinds == {compd_def.sections[i].kind : i \in DOMAIN compd_def.sections}
        secs == [k \in kinds |-> SectionDict(SectionOf(compd_def.sections, k).members)]
        name_parts == Split(compd_def.compoundname, "::")
    IN IF fn \notin DOMAIN files THEN Raise("IOError")
       ELSE IF \E k \in kinds : ~secs[k].ok
       THEN Raise(secs[CHOOSE k \in kinds : ~secs[k].ok].err)
       ELSE Ok(Update([k \in kinds |-> secs[k].val],
                      [kls_name |-> compd_def.compoundname,
                       members |-> [methods |-> class_dict.methods,
                                    variables |-> class_dict.vars],
                       file_name |-> Last(Split(compd_def.location, sep)),
                       namespace |-> Join("::", Front(name_parts))]))

\* parse_function (lines 769-780): etree.parse opens func_dict['file_name'] as
\* it stands in the index.
parse_function(func_dict, files) ==
    LET compd_def == files[func_dict.file_name]
        func_secs == SelectSeq(compd_def.sections, LAMBDA x : x.kind = "func")
        these == SelectSeq(func_secs[1].members, LAMBDA x : x.id = func_dict.refid)
        ret_dict == _parse_func(these[1])
    IN IF func_dict.file_name \notin DOMAIN files THEN Raise("IOError")
       ELSE IF func_secs = <<>> \/ these = <<>> THEN Raise("IndexError")
       ELSE IF ~ret_dict.ok THEN ret_dict
       ELSE Ok(_parse_common(these[1], ret_dict.val))

\* An index of the function members that keeps no count of the names: every
\* member is stored under its own name.
RECURSIVE NamespaceFuncsPlain(_, _, _)
NamespaceFuncsPlain(ns_funcs, ns_name, funcs_) ==
    IF ns_funcs = <<>> THEN [funcs |-> funcs_, f_name_cnts |-> EmptyDict]
    ELSE LET st == NamespaceFuncsPlain(Front(ns_funcs), ns_name, funcs_)
             k == Last(ns_funcs)
         IN [funcs |-> Update(st.funcs,
                              [n \in {k.name} |->
                                  [file_name |-> "namespace" \o ns_name \o ".xml",
                                   refid |-> k.refid, namespace |-> ns_name]]),
             f_name_cnts |-> EmptyDict]

\* lines 596-611: the function members of one namespace; st holds funcs and
\* the counter dict f_name_cnts.
RECURSIVE NamespaceFuncs(_, _, _)
NamespaceFuncs(ns_funcs, ns_name, funcs_) ==
    IF ns_funcs = <<>> THEN [funcs |-> funcs_, f_name_cnts |-> EmptyDict]
    ELSE LET st == NamespaceFuncs(Front(ns_funcs), ns_name, funcs_)
             k == Last(ns_funcs)
             seen == k.name \in DOMAIN st.f_name_cnts
             f_name == IF seen THEN k.name \o Str(st.f_name_cnts[k.name]) ELSE k.name
             cnt == IF seen THEN st.f_name_cnts[k.name] + 1 ELSE 1
         IN [funcs |-> Update(st.funcs,
                              [n \in {f_name} |->
                                  [file_name |-> "namespace" \o ns_name \o ".xml",
                                   refid |-> k.refid, namespace |-> ns_name]]),
             f_name_cnts |-> Update(st.f_name_cnts, [n \in {k.name} |-> cnt])]

\* lines 590-611: the loop over the namespaces
RECURSIVE IndexFuncs(_)
IndexFuncs(namespaces) ==
    IF namespaces = <<>> THEN EmptyDict
    ELSE LET i == Last(namespaces)
             ns_funcs == SelectSeq(i.members, LAMBDA x : x.kind = "function")
         IN NamespaceFuncs(ns_funcs, i.name, IndexFuncs(Front(namespaces))).funcs

\* lines 613-628: the loop over the classes
RECURSIVE IndexClasses(_)
IndexClasses(class_list) ==
    IF class_list = <<>> THEN EmptyDict
    ELSE LET kls == Last(class_list)
             kls_defn == Split(kls.name, "::")
             mem_names(kind) ==
                 LET ms == SelectSeq(kls.members, LAMBDA x : x.kind = kind)
                 IN [j \in DOMAIN ms |-> ms[j].name]
         IN Update(IndexClasses(Front(class_list)),
                   [n \in {Last(kls_defn)} |->
                       [file_name |-> kls.refid,
                        namespace |-> Join("::", Front(kls_defn)),
                        vars |-> mem_names("variable"),
                        methods |-> mem_names("function")]])

EndsWith(s, p) == Len(p) <= Len(s) /\ SubSeq(s, Len(s) - Len(p) + 1, Len(s)) = p

\* parse_index_xml (lines 574-630)
parse_index_xml(index_path, files) ==
    LET path == IF EndsWith(index_path, "index.xml") THEN index_path
                ELSE IF CharAt(index_path, Len(index_path)) # sep THEN index_path \o sep \o "index.xml"
                ELSE index_path \o "index.xml"
        root == files[path]
    IN IF path \notin DOMAIN files THEN Raise("IOError")
       ELSE Ok([classes |-> IndexClasses(SelectSeq(root, LAMBDA i : i.kind = "class")),
                funcs |-> IndexFuncs(SelectSeq(root, LAMBDA i : i.kind = "namespace"))])

-----------------------------------------------------------------------------
(* The bounded inputs of execute: the run control, the registry and the    *)
(* XML doxygen produces.                                                   *)

Para(text) == [text |-> text, parameterlist |-> <<>>]

\* The memberdef of a function; v selects one of three shapes of documentation.
\* No function of the model declares more than one parameter, so that the
\* iteration order of its args dict is unique.
FuncDef(name, id, v) ==
    [kind |-> "function", id |-> id, name |-> name,
     definition |-> "int ns::A::" \o name,
     briefdescription |-> IF v = 2 THEN <<>> ELSE <<Para("Brief of " \o name \o ".")>>,
     detaileddescription |->
        IF v = 1 THEN <<Para("First form of " \o name \o ".")>>
        ELSE IF v = 2
        THEN <<Para("Second form."),
               [text |-> None,
                parameterlist |-> <<(<<[name |-> "x", desc |-> "the x value"]>>)>>]>>
        ELSE <<>>,
     type |-> IF v = 1 THEN "int" ELSE IF v = 2 THEN "void" ELSE None,
     param |-> IF v = 1 THEN <<>> ELSE <<[declname |-> "x", type |-> "double"]>>,
     argsstring |-> IF v = 1 THEN "()" ELSE "(double x)"]

VarDef(name) ==
    [kind |-> "variable", id |-> "v_" \o name, name |-> name,
     definition |-> "int ns::A::" \o name,
     briefdescription |-> <<Para("A counter.")>>,
     detaileddescription |-> <<>>,
     type |-> "int"]

\* The memberdefs of a function section: the i-th takes shape ((i-1) % 3) + 1.
FuncDefs(names) ==
    [i \in DOMAIN names |-> FuncDef(names[i], "m" \o Str(i), ((i - 1) % 3) + 1)]

\* The compound file of class ns::<kls>: its constructor and the methods
\* `names` are public; the methods `prot` are protected; one public variable v.
ClassFile(kls, names, prot) ==
    [compoundname |-> "ns::" \o kls,
     location |-> "src/" \o kls \o ".h",
     sections |->
        <<[kind |-> "public-func", members |-> FuncDefs(<<kls>> \o names)],
          [kind |-> "public-attrib", members |-> <<VarDef("v")>>]>>
        \o (IF prot = <<>> THEN <<>>
            ELSE <<[kind |-> "protected-func", members |-> FuncDefs(prot)]>>)]

\* The <compound> of class ns::<kls> in index.xml.  `extra` are members the
\* index lists although the compound file holds no memberdef for them.
Member(kind, name) == [kind |-> kind, name |-> name, refid |-> "r_" \o name]

ClassCompound(kls, names, prot, extra) ==
    [kind |-> "class", name |-> "ns::" \o kls, refid |-> "class" \o kls,
     members |->
        [i \in DOMAIN (<<kls>> \o names \o prot) |->
            Member("function", (<<kls>> \o names \o prot)[i])]
        \o <<Member("variable", "v")>> \o extra]

\* The <compound> of namespace ns, with the free functions f_names.
NamespaceCompound(f_names) ==
    [kind |-> "namespace", name |-> "ns", refid |-> "namespacens",
     members |-> [i \in DOMAIN f_names |->
                     [kind |-> "function", name |-> f_names[i], refid |-> "f" \o Str(i)]]]

NamespaceFile(f_names) ==
    [compoundname |-> "ns", location |-> "src/ns.h",
     sections |-> <<[kind |-> "func",
                     members |-> [i \in DOMAIN f_names |->
                                     FuncDef(f_names[i], "f" \o Str(i), ((i - 1) % 3) + 1)]]>>]

xml_dir(build_dir) == build_dir \o sep \o "xml"

\* The files doxygen writes: index.xml, the compound file of every class of
\* in_index, and the compound file of the namespace.
World(build_dir, in_index, f_names, names, prot, extra) ==
    LET dir == xml_dir(build_dir) \o sep
        compound(kls) == IF kls = "A" THEN ClassCompound("A", names, prot, extra)
                         ELSE ClassCompound(kls, <<>>, <<>>, <<>>)
        file(kls) == IF kls = "A" THEN ClassFile("A", names, prot)
                     ELSE ClassFile(kls, <<>>, <<>>)
        order == Sorted(in_index)
    IN Update(Update([n \in {dir \o "index.xml"} |->
                         <<NamespaceCompound(f_names)>>
                         \o [i \in DOMAIN order |-> compound(order[i])]],
                     [n \in {dir \o "namespacens.xml"} |-> NamespaceFile(f_names)]),
              [n \in {dir \o "class" \o kls \o ".xml" : kls \in in_index} |->
                  file(CHOOSE kls \in in_index : n = dir \o "class" \o kls \o ".xml")])

\* rc.classes and rc.functions hold tuples (name, source file, module).
ClassSyms == {<<"A", "A.h", "m">>, <<"B", "B.h", "m">>}
FuncSyms == {<<"f", "f.h", "m">>, <<"g", "g.h", "m">>}

\* What the index can hold besides class A.
IndexSets == {{"A"}, {"A", "B"}}
FuncLists == {<<>>, <<"f">>, <<"f", "f">>}
MethodNames == {"Foo", "FooBar"}
Extras == {<<>>, <<Member("function", "Baz")>>, <<Member("variable", "w")>>}

\* The registry: rc.env[module][symbol].  The keys of a class's 'methods' are
\* tuples that start with the method's name.
OldDocstrings ==
    [class |-> "old class text",
     methods |-> [n \in {"Foo", "Baz"} |-> "old text of " \o n]]

Registry(with_old) ==
    [mod \in {"m", "n"} |->
        IF mod = "m"
        THEN [A |-> Update([methods |-> << <<"Foo", "int">>, <<"FooBar", "int">>,
                                           <<"Baz", "int">> >>],
                           IF with_old THEN [docstrings |-> OldDocstrings] ELSE EmptyDict),
              B |-> [methods |-> << <<"B", "void">> >>],
              f |-> [signature |-> "int f()"],
              g |-> [signature |-> "int g()"]]
        ELSE \* a module the run control lists no symbol of, with namesakes
             [A |-> [methods |-> << <<"Foo", "int">> >>],
              B |-> [methods |-> << <<"B", "void">> >>],
              f |-> [signature |-> "void f(int)"]]]

\* config_order is the order in which rc.doxygen_config is iterated.
RunControl(cls, fns, config_order) ==
    [package |-> "pkg", builddir |-> "build", sourcedir |-> "src",
     doxyfile_name |-> "doxyfile",
     doxygen_config |-> setup(EmptyDict, "pkg", "build", "src"),
     config_order |-> config_order,
     classes |-> cls, functions |-> fns]

-----------------------------------------------------------------------------
(* XDressPlugin.execute (lines 970-1081), one action per step.             *)

\* The values the configuration pipeline's variables keep under Spec.
CfgIdle ==
    /\ cpc = "idle" /\ cdefault = EmptyDict /\ cuser = EmptyDict
    /\ cfg = EmptyDict /\ corder = <<>> /\ ctext = ""

\* The values the variables of a function call keep under Spec and SpecCfg.
FnIdle == fpc = "idle" /\ fcall = EmptyDict /\ fret = EmptyDict

\* One documented class A with one method Foo, no free function.
BaseScenario ==
    [cls |-> << <<"A", "A.h", "m">> >>, fns |-> <<>>, in_index |-> {"A"}, f_names |-> <<>>,
     names |-> <<"Foo">>, prot |-> <<>>, extra |-> <<>>, with_old |-> FALSE,
     config_order |-> Sorted(DOMAIN rc_params("", "", ""))]

\* The inputs vary around BaseScenario, one aspect at a time: the class list
\* and the index; the function list and the free functions of the index; the
\* methods of class A; members without documentation and the registry's
\* earlier docstrings; the order in which the configuration dict is iterated.
Scenarios ==
    {[BaseScenario EXCEPT !.cls = cls, !.in_index = ix] :
        cls \in SeqsUpTo(ClassSyms, MaxClasses), ix \in IndexSets}
    \cup
    {[BaseScenario EXCEPT !.fns = fns, !.f_names = fl] :
        fns \in SeqsUpTo(FuncSyms, MaxFunctions), fl \in FuncLists}
    \cup
    {[BaseScenario EXCEPT !.names = names, !.prot = prot] :
        names \in SeqsUpTo(MethodNames, MaxMembers), prot \in {<<>>, <<"Foo">>}}
    \cup
    {[BaseScenario EXCEPT !.extra = extra, !.with_old = with_old] :
        extra \in Extras, with_old \in BOOLEAN}
    \cup
    {[BaseScenario EXCEPT !.config_order = o] : o \in Orders(DOMAIN rc_params("", "", ""))}

Init ==
    /\ \E sc \in Scenarios :
         /\ rc = RunControl(sc.cls, sc.fns, sc.config_order)
         /\ env = Registry(sc.with_old)
         /\ world = World("build", sc.in_index, sc.f_names, sc.names, sc.prot, sc.extra)
    /\ env0 = env
    /\ pc = "start"
    /\ disk = EmptyDict
    /\ classes = EmptyDict /\ funcs = EmptyDict
    /\ ci = 1 /\ mi = 1 /\ fi = 1
    /\ parsed = EmptyDict
    /\ log = <<>>
    /\ CfgIdle
    /\ FnIdle

Raised == pc' = "raised"

\* lines 978-980: the doxyfile is created
WriteDoxyfile ==
    /\ pc = "start"
    /\ disk' = Update(disk, [n \in {rc.doxyfile_name} |->
                                dox_dict2str(rc.doxygen_config, rc.config_order)])
    /\ pc' = "doxyfile_written"
    /\ log' = Append(log, "write_doxyfile")
    /\ UNCHANGED <<rc, env, env0, world, classes, funcs, ci, mi, fi, parsed>>
    /\ UNCHANGED <<cfgVars, fnVars>>

\* A call that does not wait for doxygen to end.
CallDoxygenNoWait ==
    /\ pc = "doxyfile_written"
    /\ pc' = "doxygen_returned"
    /\ log' = Append(log, "call_doxygen")
    /\ UNCHANGED <<rc, env, env0, world, disk, classes, funcs, ci, mi, fi, parsed>>
    /\ UNCHANGED <<cfgVars, fnVars>>

\* line 983: subprocess.call starts doxygen on the doxyfile
CallDoxygen ==
    /\ pc = "doxyfile_written"
    /\ pc' = "doxygen_running"
    /\ log' = Append(log, "call_doxygen")
    /\ UNCHANGED <<rc, env, env0, world, disk, classes, funcs, ci, mi, fi, parsed>>
    /\ UNCHANGED <<cfgVars, fnVars>>

\* doxygen ends with success: its XML is on disk
DoxygenSucceeds ==
    /\ pc = "doxygen_running"
    /\ rc.doxyfile_name \in DOMAIN disk
    /\ disk' = Update(disk, world)
    /\ pc' = "doxygen_returned"
    /\ log' = Append(log, "doxygen_returned")
    /\ UNCHANGED <<rc, env, env0, world, classes, funcs, ci, mi, fi, parsed>>
    /\ UNCHANGED <<cfgVars, fnVars>>

\* doxygen ends with a failure: it wrote nothing; the exit code is not looked at
DoxygenFails ==
    /\ pc = "doxygen_running"
    /\ pc' = "doxygen_returned"
    /\ log' = Append(log, "doxygen_returned")
    /\ UNCHANGED <<rc, env, env0, world, disk, classes, funcs, ci, mi, fi, parsed>>
    /\ UNCHANGED <<cfgVars, fnVars>>

\* there is no doxygen to run: subprocess.call raises OSError
DoxygenMissing ==
    /\ pc = "doxygen_running"
    /\ Raised
    /\ log' = Append(log, "raise")
    /\ UNCHANGED <<rc, env, env0, world, disk, classes, funcs, ci, mi, fi, parsed>>
    /\ UNCHANGED <<cfgVars, fnVars>>

\* lines 985-988
ParseIndex ==
    /\ pc = "doxygen_returned"
    /\ LET r == parse_index_xml(xml_dir(rc.builddir) \o sep \o "index.xml", disk) IN
         IF r.ok
         THEN /\ classes' = r.val.classes
              /\ funcs' = r.val.funcs
              /\ pc' = "classes"
              /\ log' = Append(log, "parse_index")
         ELSE /\ Raised
              /\ log' = log \o <<"parse_index", "raise">>
              /\ UNCHANGED <<classes, funcs>>
    /\ ci' = 1
    /\ UNCHANGED <<rc, env, env0, world, disk, mi, fi, parsed>>
    /\ UNCHANGED <<cfgVars, fnVars>>

\* The keys of a parsed class that contain `word`.
GroupKeys(data, word) == {k \in DOMAIN data : Contains(k, word)}

\* lines 998-1001: except KeyError: the class is skipped with a message
ClassMissingRaises ==
    /\ Raised
    /\ log' = Append(log, "raise")
    /\ UNCHANGED <<ci, classes, parsed>>

ClassMissing ==
    /\ ci' = ci + 1
    /\ log' = Append(log, "skip_class")
    /\ UNCHANGED <<pc, classes, parsed>>

\* lines 1003-1005: the entry of the index is given the path of the class
\* file, in place, and the class is parsed.  The dict parse_class returns is
\* kept with the order in which its keys() and the keys() of its function
\* sections are iterated.
ClassFound(kls) ==
    LET prepend_fn == rc.builddir \o sep \o "xml" \o sep
        this_kls == [classes[kls] EXCEPT !.file_name = prepend_fn \o @]
        r == parse_class(this_kls, disk)
    IN /\ classes' = [classes EXCEPT ![kls] = this_kls]
       /\ IF r.ok
          THEN /\ \E fk \in Orders(GroupKeys(r.val, "func")),
                     ik \in Orders(GroupKeys(r.val, "attrib")) :
                  \E nm \in [GroupKeys(r.val, "func") ->
                               UNION {Orders(DOMAIN r.val[k]) : k \in GroupKeys(r.val, "func")}] :
                     /\ \A k \in DOMAIN nm : nm[k] \in Orders(DOMAIN r.val[k])
                     /\ parsed' = [data |-> r.val, func_grp_keys |-> fk,
                                   ivar_keys |-> ik, names |-> nm]
               /\ pc' = "class_parsed"
               /\ log' = Append(log, "parse_class")
          ELSE /\ Raised
               /\ log' = log \o <<"parse_class", "raise">>
               /\ UNCHANGED parsed
       /\ UNCHANGED ci

\* lines 991-1005: one class of rc.classes is looked up and parsed
ClassLookup ==
    /\ pc = "classes"
    /\ ci <= Len(rc.classes)
    /\ IF rc.classes[ci][1] \notin DOMAIN classes
       THEN ClassMissing
       ELSE ClassFound(rc.classes[ci][1])
    /\ UNCHANGED <<rc, env, env0, world, disk, mi, fi, funcs>>
    /\ UNCHANGED <<cfgVars, fnVars>>

\* The registry entry of the class being processed (KlsModOther: the module
\* of its namesake).
Kls == rc.classes[ci][1]
KlsModOther == "n"
KlsMod == rc.classes[ci][3]

\* lines 1007-1016: the docstrings dict is made if needed and the class
\* docstring is stored
ClassDocstring ==
    /\ pc = "class_parsed"
    /\ LET entry == env[KlsMod][Kls]
           made == IF "docstrings" \notin DOMAIN entry
                   THEN Update(entry, [docstrings |-> [methods |-> EmptyDict]])
                   ELSE entry
           r == class_docstr(parsed.data, FALSE, parsed.ivar_keys, parsed.func_grp_keys)
       IN IF r.ok
          THEN /\ env' = [env EXCEPT ![KlsMod][Kls] =
                            [made EXCEPT !.docstrings = Update(@, [class |-> r.val])]]
               /\ pc' = "methods"
               /\ log' = Append(log, "write_class_docstring")
          ELSE /\ env' = [env EXCEPT ![KlsMod][Kls] = made]
               /\ Raised
               /\ log' = Append(log, "raise")
    /\ mi' = 1
    /\ UNCHANGED <<rc, env0, world, disk, classes, funcs, ci, fi, parsed>>
    /\ UNCHANGED <<cfgVars, fnVars>>

\* line 1016: rc_methods
rc_methods == LET keys == env[KlsMod][Kls].methods IN [i \in DOMAIN keys |-> keys[i][1]]

\* A matching by the exact name in place of the prefix.
RECURSIVE MatchesExact(_, _, _)
MatchesExact(p, keys, m) ==
    IF keys = <<>> THEN <<>>
    ELSE LET key == keys[1]
             m_names == SelectSeq(p.names[key], LAMBDA x : x = m)
         IN [i \in DOMAIN m_names |-> p.data[key][m_names[i]]] \o MatchesExact(p, Tail(keys), m)

\* lines 1023-1031: the members of the function sections whose key starts
\* with m, section by section
RECURSIVE Matches(_, _, _)
Matches(p, keys, m) ==
    IF keys = <<>> THEN <<>>
    ELSE LET key == keys[1]
             m_names == SelectSeq(p.names[key], LAMBDA x : StartsWith(x, m))
         IN [i \in DOMAIN m_names |-> p.data[key][m_names[i]]] \o Matches(p, Tail(keys), m)

\* lines 1038-1044 and 1068-1074: the docstring of an overloaded function
Overloaded(wrapper, f_type, banner, ds_list) ==
    Fill(wrapper, _overload_msg(f_type)) \o "\n\n" \o Join(banner, ds_list)

\* lines 1022-1050: one method of rc_methods
MethodStep ==
    /\ pc = "methods"
    /\ mi <= Len(rc_methods)
    /\ LET m == rc_methods[mi]
           matches == Matches(parsed, parsed.func_grp_keys, m)
           ds_list == [i \in DOMAIN matches |-> func_docstr(matches[i], TRUE)]
           store(m_ds) ==
               env' = [env EXCEPT ![KlsMod][Kls].docstrings.methods =
                                      Update(@, [n \in {m} |-> m_ds])]
       IN IF matches = <<>>
          THEN /\ log' = Append(log, "skip_method")
               /\ UNCHANGED <<env, pc>>
          ELSE IF \E i \in DOMAIN ds_list : ~ds_list[i].ok
          THEN /\ Raised
               /\ log' = Append(log, "raise")
               /\ UNCHANGED env
          ELSE /\ IF Len(matches) = 1
                  THEN store(ds_list[1].val)
                  ELSE store(Overloaded(wrap_64, "method", Repeat("#", 64) \o "\n\n",
                                        [i \in DOMAIN ds_list |-> ds_list[i].val]))
               /\ log' = Append(log, "write_method_docstring")
               /\ UNCHANGED pc
    /\ mi' = mi + 1
    /\ UNCHANGED <<rc, env0, world, disk, classes, funcs, ci, fi, parsed>>
    /\ UNCHANGED <<cfgVars, fnVars>>

\* the loop over rc_methods ends: the next class
MethodsDone ==
    /\ pc = "methods"
    /\ mi > Len(rc_methods)
    /\ ci' = ci + 1
    /\ pc' = "classes"
    /\ UNCHANGED <<rc, env, env0, world, disk, classes, funcs, mi, fi, parsed, log>>
    /\ UNCHANGED <<cfgVars, fnVars>>

\* the loop over rc.classes ends: line 1053
ClassesDone ==
    /\ pc = "classes"
    /\ ci > Len(rc.classes)
    /\ pc' = "functions"
    /\ fi' = 1
    /\ UNCHANGED <<rc, env, env0, world, disk, classes, funcs, ci, mi, parsed, log>>
    /\ UNCHANGED <<cfgVars, fnVars>>

\* `f in x` of line 1060: f is an element of rc.functions, a tuple, and x a
\* str, and Python raises TypeError for a left operand that is no string.
tuple_in_str(f, x) == Raise("TypeError")

\* line 1060: filter(lambda x: f in x, funcs.keys()), the keys taken in `order`
filter_matches(f, order) ==
    IF \E i \in DOMAIN order : ~tuple_in_str(f, order[i]).ok
    THEN Raise("TypeError")
    ELSE Ok(SelectSeq(order, LAMBDA x : tuple_in_str(f, x).val))

\* lines 1053-1081: one function of rc.functions
FunctionStep ==
    /\ pc = "functions"
    /\ fi <= Len(rc.functions)
    /\ \E order \in Orders(DOMAIN funcs) :
       LET f == rc.functions[fi]
           func == f[1]
           func_mod == f[3]
           matches == filter_matches(f, order)
           parsed_fs == [i \in DOMAIN matches.val |-> parse_function(funcs[matches.val[i]], disk)]
           ds_list == [i \in DOMAIN parsed_fs |-> func_docstr(parsed_fs[i].val, FALSE)]
           store(f_ds) ==
               env' = [env EXCEPT ![func_mod][func] = Update(@, [docstring |-> f_ds])]
       IN IF ~matches.ok
          THEN /\ Raised /\ UNCHANGED env /\ log' = Append(log, "raise")
          ELSE IF Len(matches.val) = 1
          THEN \* funcs[f]: the tuple f is no key of funcs
               /\ Raised /\ UNCHANGED env /\ log' = Append(log, "raise")
          ELSE IF \E i \in DOMAIN parsed_fs : ~parsed_fs[i].ok \/ ~ds_list[i].ok
          THEN /\ Raised /\ UNCHANGED env /\ log' = Append(log, "raise")
          ELSE /\ store(Overloaded(wrap_68, "function",
                                   "\n\n" \o Repeat("#", 72) \o "\n\n",
                                   [i \in DOMAIN ds_list |-> ds_list[i].val]))
               /\ log' = Append(log, "write_function_docstring")
               /\ UNCHANGED pc
    /\ fi' = fi + 1
    /\ UNCHANGED <<rc, env0, world, disk, classes, funcs, ci, mi, parsed>>
    /\ UNCHANGED <<cfgVars, fnVars>>

\* the loop over rc.functions ends: execute returns
FunctionsDone ==
    /\ pc = "functions"
    /\ fi > Len(rc.functions)
    /\ pc' = "done"
    /\ UNCHANGED <<rc, env, env0, world, disk, classes, funcs, ci, mi, fi, parsed, log>>
    /\ UNCHANGED <<cfgVars, fnVars>>

Next ==
    \/ WriteDoxyfile
    \/ CallDoxygen
    \/ DoxygenSucceeds
    \/ DoxygenFails
    \/ DoxygenMissing
    \/ ParseIndex
    \/ ClassLookup
    \/ ClassDocstring
    \/ MethodStep
    \/ MethodsDone
    \/ ClassesDone
    \/ FunctionStep
    \/ FunctionsDone

Spec == Init /\ [][Next]_vars

-----------------------------------------------------------------------------
(* The configuration pipeline: the run control merges the user's           *)
(* doxygen_config into the default table (rcupdaters, line 958), setup     *)
(* forces the three keys, and execute serializes the result (line 979).    *)

\* Default tables: entries of default_doxygen_config (lines 359-546).
DefaultTables ==
    {[PROJECT_NAME |-> StrV("project"), OUTPUT_DIRECTORY |-> StrV("output_dir"),
      INPUT |-> StrV("{src_dir}")],
     [PROJECT_NAME |-> StrV("project"), EXTRACT_ALL |-> StrV("NO")]}

\* What the user's doxygen_config can hold.
UserKeys == {"PROJECT_NAME", "EXTRACT_ALL", "aliases"}
UserValues == {BoolV(TRUE), BoolV(FALSE), StrV(""), StrV("a b ")}

UserConfigs ==
    UNION {[K -> UserValues] : K \in {S \in SUBSET UserKeys : Cardinality(S) <= MaxUserKeys}}

InitCfg ==
    /\ cpc = "loaded"
    /\ cdefault \in DefaultTables
    /\ cuser \in UserConfigs
    /\ cfg = cdefault
    /\ corder = <<>>
    /\ ctext = ""
    /\ pc = "idle"
    /\ rc = RunControl(<<>>, <<>>, <<>>)
    /\ env = EmptyDict /\ env0 = EmptyDict /\ world = EmptyDict /\ disk = EmptyDict
    /\ classes = EmptyDict /\ funcs = EmptyDict
    /\ ci = 1 /\ mi = 1 /\ fi = 1
    /\ parsed = EmptyDict
    /\ log = <<>>
    /\ FnIdle

\* line 958: rc.doxygen_config = merge_configs(default, user)
MergeConfigs ==
    /\ cpc = "loaded"
    /\ cfg' = merge_configs(cdefault, cuser)
    /\ cpc' = "merged"
    /\ UNCHANGED <<cdefault, cuser, corder, ctext>>
    /\ UNCHANGED <<execVars, fnVars>>

\* lines 960-968
Setup ==
    /\ cpc = "merged"
    /\ cfg' = setup(cfg, rc.package, rc.builddir, rc.sourcedir)
    /\ cpc' = "setup"
    /\ UNCHANGED <<cdefault, cuser, corder, ctext>>
    /\ UNCHANGED <<execVars, fnVars>>

\* line 979: doxyfile = dox_dict2str(rc.doxygen_config); the dict is iterated
\* in some order
DoxDict2Str ==
    /\ cpc = "setup"
    /\ \E order \in Orders(DOMAIN cfg) :
         /\ corder' = order
         /\ ctext' = dox_dict2str(cfg, order)
    /\ cpc' = "written"
    /\ UNCHANGED <<cdefault, cuser, cfg>>
    /\ UNCHANGED <<execVars, fnVars>>

NextCfg ==
    \/ MergeConfigs
    \/ Setup
    \/ DoxDict2Str

SpecCfg == InitCfg /\ [][NextCfg]_vars

-----------------------------------------------------------------------------
(* Calls of the module's functions on their own: the renderers, the        *)
(* parsers and the wrappers, each applied to one argument.                 *)

\* The values execute's variables keep while a function is called on its own.
ExecIdle ==
    /\ pc = "idle"
    /\ rc = RunControl(<<>>, <<>>, <<>>)
    /\ env = EmptyDict /\ env0 = EmptyDict /\ world = EmptyDict /\ disk = EmptyDict
    /\ classes = EmptyDict /\ funcs = EmptyDict
    /\ ci = 1 /\ mi = 1 /\ fi = 1
    /\ parsed = EmptyDict
    /\ log = <<>>

Call(fn, arg) == [fn |-> fn, arg |-> arg]

\* ---- class descriptions, as parse_class returns them (lines 893-906) -----

\* The methods a class description can list: the constructor and the
\* destructor of class A and two more methods.
MethodPool == {"A", "bar", "foo", "~A"}

\* The description of method n; bar has no brief description.
MethodDesc(n) ==
    [briefdescription |-> IF n = "bar" THEN "" ELSE "Does " \o n \o ".",
     detaileddescription |-> "About " \o n \o ".",
     definition |-> "void ns::A::" \o n,
     ret_type |-> "void", args |-> <<>>, arg_string |-> "()"]

\* The description of class ns::A whose index entry lists `methods`.
ClassDict(methods) ==
    Update([k \in {"public-func", "public-attrib"} |->
               IF k = "public-func" THEN [n \in MethodPool |-> MethodDesc(n)]
               ELSE [n \in {"v"} |->
                        [briefdescription |-> "A counter.", detaileddescription |-> "",
                         definition |-> "int ns::A::v", type |-> "int"]]],
           [kls_name |-> "ns::A",
            members |-> [methods |-> methods, variables |-> <<"v">>],
            file_name |-> "A.h", namespace |-> "ns"])

ClassDocstrCalls ==
    {Call("class_docstr", [class_dict |-> ClassDict(ms), desc_funcs |-> b]) :
        ms \in SeqsUpTo(MethodPool, MaxListed), b \in BOOLEAN}

\* ---- function descriptions, as parse_function returns them ---------------

\* The parameters a function description can have: [name, type] or [name,
\* type, desc].
ArgPool ==
    {[name |-> "x", type |-> "double"],
     [name |-> "y", type |-> "int", desc |-> "the y value"],
     [name |-> "z", type |-> "char", desc |-> "the z value"]}

\* args in the order in which the dict is iterated: no name twice.
ArgLists ==
    {a \in SeqsUpTo(ArgPool, MaxArgs) : \A i, j \in DOMAIN a : i # j => a[i] # a[j]}

\* ret_type: None or a str, or a list of str.
TextRetTypes == {None, "int"}
ListRetTypes == SeqsUpTo({"int", "double"}, MaxRets) \ {<<>>}

FuncDict(args, ret_type) ==
    [briefdescription |-> "Adds.", detaileddescription |-> "Adds the values.",
     definition |-> "int ns::add", args |-> args, ret_type |-> ret_type,
     arg_string |-> "()"]

FuncDocstrCalls(ret_types) ==
    {Call("func_docstr", [func_dict |-> FuncDict(a, r), is_method |-> b]) :
        a \in ArgLists, r \in ret_types, b \in BOOLEAN}

\* ---- function fragments (memberdef elements of kind function) ------------

\* The <parameteritem> elements a parameter list can hold.
ParamItems == {[name |-> n, desc |-> d] : n \in {"x", "y"}, d \in {"the first", "the second"}}

ParamLists == SeqsUpTo(ParamItems, MaxItems)

\* The detailed descriptions: no paragraph; one paragraph, with or without a
\* parameter list in it; two paragraphs, the second with a parameter list or
\* plain text; three paragraphs.
DetailedDescriptions ==
    {<<>>, <<Para("One.")>>, <<Para("One."), Para("Two.")>>}
    \cup {<<[text |-> "One.", parameterlist |-> <<pl>>]>> : pl \in ParamLists}
    \cup {<<Para("One."), [text |-> None, parameterlist |-> <<pl>>]>> : pl \in ParamLists}
    \cup {<<Para("One."), [text |-> None, parameterlist |-> <<pl>>], Para("Three.")>> :
              pl \in ParamLists}

\* The declared parameters: up to MaxArgs of x, y, z, no name twice.
DeclaredParams ==
    {[i \in DOMAIN ns |-> [declname |-> ns[i], type |-> "double"]] :
        ns \in {a \in SeqsUpTo({"x", "y", "z"}, MaxArgs) :
                   \A i, j \in DOMAIN a : i # j => a[i] # a[j]}}

FuncFragment(dd, params) ==
    [kind |-> "function", id |-> "f1", name |-> "f", definition |-> "int ns::f",
     briefdescription |-> <<Para("Brief of f.")>>,
     detaileddescription |-> dd,
     type |-> "int", param |-> params, argsstring |-> "(...)"]

ParseFuncCalls ==
    {Call("_parse_func", FuncFragment(dd, ps)) :
        dd \in DetailedDescriptions, ps \in DeclaredParams}

\* ---- texts given to the wrappers -----------------------------------------

\* Words shorter than, as long as and longer than the widths, and the empty
\* word, which puts a blank at an end of the text or two blanks in a row.
Words == {"", "ab", Repeat("w", 33), Repeat("x", 64), Repeat("y", 70)}

FillCalls ==
    {Call("fill", [wrapper |-> w, text |-> Join(" ", ws)]) :
        w \in {wrap_68, wrap_64, attrib_wrap}, ws \in SeqsUpTo(Words, MaxWords)}

\* ---- index documents (index.xml) -----------------------------------------

\* The <compound> of a namespace with the function members `names` and one
\* variable.
Namespace(ns_name, names) ==
    [kind |-> "namespace", name |-> ns_name, refid |-> "namespace" \o ns_name,
     members |-> [i \in DOMAIN names |->
                     [kind |-> "function", name |-> names[i],
                      refid |-> ns_name \o "_" \o Str(i)]]
                 \o <<Member("variable", "v")>>]

\* The <compound> of the class kls_name (a qualified name).
ClassEntry(kls_name) ==
    [kind |-> "class", name |-> kls_name, refid |-> "class_" \o kls_name,
     members |-> <<Member("function", Last(Split(kls_name, "::"))),
                   Member("variable", "v")>>]

\* Index documents: namespace ns with up to MaxOverloads functions named f,
\* f1 or g next to a second namespace, or a list of classes of which two
\* have the name A.
IndexDocs ==
    {<<Namespace("ns", a), ClassEntry("ns::A"), Namespace("ns2", b)>> :
        a \in SeqsUpTo({"f", "f1", "g"}, MaxOverloads),
        b \in {<<>>, <<"f">>, <<"g", "g">>}}
    \cup
    {<<Namespace("ns", <<"f">>)>> \o [i \in DOMAIN cs |-> ClassEntry(cs[i])] :
        cs \in {c \in SeqsUpTo({"ns::A", "ns2::A", "B"}, 2) :
                   \A i, j \in DOMAIN c : i # j => c[i] # c[j]}}

ParseIndexCalls ==
    {Call("parse_index_xml",
          [index_path |-> p, files |-> [n \in {"build/xml/index.xml"} |-> doc]]) :
        p \in {"build/xml", "build/xml/", "build/xml/index.xml"}, doc \in IndexDocs}

\* ---- variable fragments (memberdef elements of kind variable) ------------

\* The variable v with a detailed description of no paragraph, of one
\* paragraph that starts with text, of one paragraph that starts with an
\* element (its .text is None), or of two paragraphs.
VarFragments ==
    {[VarDef("v") EXCEPT !.detaileddescription = dd, !.type = t] :
        dd \in {<<>>, <<Para("Counts.")>>, <<Para(None)>>,
                <<Para("Counts."), Para("More.")>>},
        t \in {"int", "double"}}

ParseVariableCalls == {Call("_parse_variable", v) : v \in VarFragments}

\* ---- class files ---------------------------------------------------------

\* parse_class on the file of class ns::A, whose public-func section holds
\* the constructor and then up to MaxMembers + 1 methods named Foo or Foo1,
\* or MaxSameName methods named Foo.
ParseClassCalls ==
    {Call("parse_class",
          [class_dict |-> [file_name |-> "build/xml/classA", namespace |-> "ns",
                           vars |-> <<"v">>, methods |-> <<"A">> \o names],
           files |-> [n \in {"build/xml/classA.xml"} |-> ClassFile("A", names, <<>>)]]) :
        names \in SeqsUpTo({"Foo", "Foo1"}, MaxMembers + 1)
                  \cup {[i \in 1..MaxSameName |-> "Foo"]}}

\* ---- the calls -----------------------------------------------------------

InitFn ==
    /\ fpc = "called"
    /\ \/ fcall \in ClassDocstrCalls
       \/ fcall \in FuncDocstrCalls(TextRetTypes)
       \/ fcall \in FuncDocstrCalls(ListRetTypes)
       \/ fcall \in ParseFuncCalls
       \/ fcall \in FillCalls
       \/ fcall \in ParseIndexCalls
       \/ fcall \in ParseVariableCalls
       \/ fcall \in ParseClassCalls
    /\ fret = EmptyDict
    /\ ExecIdle
    /\ CfgIdle

Returns(r) ==
    /\ fpc = "called"
    /\ fret' = r
    /\ fpc' = "returned"
    /\ UNCHANGED <<fcall, execVars, cfgVars>>

\* class_docstr(class_dict, desc_funcs); the keys of class_dict are iterated
\* in some order (lines 174-175)
CallClassDocstr ==
    /\ fcall.fn = "class_docstr"
    /\ \E ik \in Orders(GroupKeys(fcall.arg.class_dict, "attrib")),
          fk \in Orders(GroupKeys(fcall.arg.class_dict, "func")) :
          Returns(class_docstr(fcall.arg.class_dict, fcall.arg.desc_funcs, ik, fk))

\* func_docstr(func_dict, is_method)
CallFuncDocstr ==
    /\ fcall.fn = "func_docstr"
    /\ Returns(func_docstr(fcall.arg.func_dict, fcall.arg.is_method))

\* _parse_func(f_xml)
CallParseFunc ==
    /\ fcall.fn = "_parse_func"
    /\ Returns(_parse_func(fcall.arg))

\* wrap_68.fill(text), wrap_64.fill(text), attrib_wrap.fill(text)
CallFill ==
    /\ fcall.fn = "fill"
    /\ Returns(Ok(Fill(fcall.arg.wrapper, fcall.arg.text)))

\* parse_index_xml(index_path)
CallParseIndexXml ==
    /\ fcall.fn = "parse_index_xml"
    /\ Returns(parse_index_xml(fcall.arg.index_path, fcall.arg.files))

\* _parse_variable(v_xml)
CallParseVariable ==
    /\ fcall.fn = "_parse_variable"
    /\ Returns(_parse_variable(fcall.arg))

\* parse_class(class_dict)
CallParseClass ==
    /\ fcall.fn = "parse_class"
    /\ Returns(parse_class(fcall.arg.class_dict, fcall.arg.files))

NextFn ==
    \/ CallClassDocstr
    \/ CallFuncDocstr
    \/ CallParseFunc
    \/ CallFill
    \/ CallParseIndexXml
    \/ CallParseVariable
    \/ CallParseClass

SpecFn == InitFn /\ [][NextFn]_vars

-----------------------------------------------------------------------------
(* Properties of execute, checked under Spec.                              *)

\* C1: when execute processes a class of rc.classes that has no entry in the
\* class index, no exception is raised, the registry is left as it is (no
\* docstrings entry is added) and execute goes on to the next class.
C1_MissingClassSkipped ==
    [][(pc = "classes" /\ ci <= Len(rc.classes)
            /\ rc.classes[ci][1] \notin DOMAIN classes)
         => (pc' = "classes" /\ env' = env /\ ci' = ci + 1)]_vars

\* A class was skipped, a later class got its docstring, and execute returned;
\* the skipped class has no docstrings entry.
C1_Witness ==
    /\ pc = "done"
    /\ \E i, j \in DOMAIN log :
         i < j /\ log[i] = "skip_class" /\ log[j] = "write_class_docstring"
    /\ \E c \in DOMAIN rc.classes :
         /\ rc.classes[c][1] \notin DOMAIN classes
         /\ "docstrings" \notin DOMAIN env[rc.classes[c][3]][rc.classes[c][1]]

\* The entries of the free-function index whose key contains the name of the
\* j-th function of rc.functions.
FuncM(j) == {k \in DOMAIN funcs : Contains(k, rc.functions[j][1])}

\* The top-level rendering of the entry k of the free-function index, its
\* file read from the XML directory.
FuncRendering(k) ==
    func_docstr(parse_function([funcs[k] EXCEPT !.file_name = xml_dir(rc.builddir) \o sep \o @],
                               disk).val, FALSE).val

\* C2: a symbol that is missing from the extracted documentation never aborts
\* the run: the step that processes a free function with no match does not
\* raise, and when execute returns every function that has a match has its
\* docstring in the registry.
C2_MissingSymbolNeverAborts ==
    /\ \A j \in DOMAIN rc.functions :
         (fi > j /\ FuncM(j) = {}) => ~(pc = "raised" /\ fi = j + 1)
    /\ pc = "done" =>
         \A j \in DOMAIN rc.functions :
            FuncM(j) # {} => "docstring" \in DOMAIN env[rc.functions[j][3]][rc.functions[j][1]]

\* The entries <<section, key>> of the parsed class's function sections whose
\* key starts with m.
MethodM(m) ==
    {p \in UNION {{<<k, n>> : n \in DOMAIN parsed.data[k]} :
                     k \in GroupKeys(parsed.data, "func")} : StartsWith(p[2], m)}

\* The method-profile rendering of an entry.
MethodRendering(p) == func_docstr(parsed.data[p[1]][p[2]], TRUE).val

\* The renderings of a sequence of entries.
RECURSIVE MethodRenderings(_)
MethodRenderings(ps) ==
    IF ps = <<>> THEN <<>>
    ELSE <<MethodRendering(Head(ps))>> \o MethodRenderings(Tail(ps))

\* The sequences a and b hold the same texts, each as often in one as in the
\* other.
IsPermutation(a, b) ==
    /\ Len(a) = Len(b)
    /\ \A i \in DOMAIN a :
         Cardinality({k \in DOMAIN a : a[k] = a[i]})
           = Cardinality({k \in DOMAIN b : b[k] = a[i]})

\* text is the overload notice, a blank line, and the renderings in some
\* order with a line of 64 '#' and a blank line between consecutive ones.
IsOverloadText(text, renderings) ==
    LET notice == Fill(wrap_64, _overload_msg("method")) \o "\n\n"
    IN /\ StartsWith(text, notice)
       /\ IsPermutation(renderings,
                        Split(SubSeq(text, Len(notice) + 1, Len(text)),
                              Repeat("#", 64) \o "\n\n"))

\* docstrings.methods of the class being processed, before execute.
OldMethods ==
    IF "docstrings" \in DOMAIN env0[KlsMod][Kls]
    THEN env0[KlsMod][Kls].docstrings.methods ELSE EmptyDict

\* What C3 says of the method name m, with M the entries that match it.
MethodAsClaimed(m, M, methods) ==
    /\ M = {} =>
         IF m \in DOMAIN OldMethods
         THEN m \in DOMAIN methods /\ methods[m] = OldMethods[m]
         ELSE m \notin DOMAIN methods
    /\ Cardinality(M) = 1 =>
         /\ m \in DOMAIN methods
         /\ methods[m] = MethodRendering(CHOOSE p \in M : TRUE)
    /\ Cardinality(M) >= 2 =>
         /\ m \in DOMAIN methods
         /\ IsOverloadText(methods[m], MethodRenderings(CHOOSE o \in Orders(M) : TRUE))

\* C3: for every method name m of the class that execute has processed, with
\* M the entries of the function sections whose key starts with m: nothing is
\* written under docstrings.methods[m] when M is empty; it is the
\* method-profile rendering of the entry when M has one entry; it is the
\* overload notice followed by the renderings of all entries of M, each once,
\* with a line of 64 '#' between consecutive renderings, when M has two or
\* more.
C3_MethodMatching ==
    pc = "methods" =>
      \A j \in 1..(mi - 1) :
        MethodAsClaimed(rc_methods[j], MethodM(rc_methods[j]),
                        env[KlsMod][Kls].docstrings.methods)

\* The methods of a class were processed: one with two or more matches, one
\* with exactly one match and one with none.
C3_Witness ==
    /\ pc = "methods"
    /\ \E j \in 1..(mi - 1) : Cardinality(MethodM(rc_methods[j])) >= 2
    /\ \E j \in 1..(mi - 1) : Cardinality(MethodM(rc_methods[j])) = 1
    /\ \E j \in 1..(mi - 1) : MethodM(rc_methods[j]) = {}

\* C4: for every free function of rc.functions that execute has processed,
\* with M the entries of the function index whose key contains its name: the
\* docstring stored for it is the rendering of the entry when M has one
\* entry, and the overload notice followed by the renderings of all entries
\* of M, each once, separated by a banner line of '#', when M has two or more.
C4_FunctionMatching ==
    \A j \in DOMAIN rc.functions :
      fi > j =>
        LET entry == env[rc.functions[j][3]][rc.functions[j][1]]
        IN /\ Cardinality(FuncM(j)) = 1 =>
                /\ "docstring" \in DOMAIN entry
                /\ entry.docstring = FuncRendering(CHOOSE k \in FuncM(j) : TRUE)
           /\ Cardinality(FuncM(j)) >= 2 =>
                /\ "docstring" \in DOMAIN entry
                /\ \E o \in Orders(FuncM(j)) :
                     entry.docstring = Fill(wrap_68, _overload_msg("function")) \o "\n\n"
                                       \o Join("\n\n" \o Repeat("#", 72) \o "\n\n",
                                               [i \in DOMAIN o |-> FuncRendering(o[i])])

\* C5: a free function of rc.functions that matches no entry of the function
\* index is treated as not found: once execute has processed it, the registry
\* holds no docstring key for it and no exception was raised.
C5_ZeroMatchesSkipped ==
    \A j \in DOMAIN rc.functions :
      (fi > j /\ FuncM(j) = {}) =>
         /\ "docstring" \notin DOMAIN env[rc.functions[j][3]][rc.functions[j][1]]
         /\ pc # "raised"

\* The steps of execute that parse the index or a class, or write to the
\* registry.
ParseEvents ==
    {"parse_index", "parse_class", "skip_class", "write_class_docstring",
     "skip_method", "write_method_docstring", "write_function_docstring"}

\* C6: the steps of execute happen in this order: the doxyfile is written,
\* then doxygen is invoked with that file, then the invocation returns, and
\* only then is the index parsed and any class or function file read; the
\* registry and the indexes are as they were until the invocation has
\* returned.
C6_StepOrder ==
    /\ \A i \in DOMAIN log :
         /\ log[i] = "write_doxyfile" => i = 1
         /\ log[i] = "call_doxygen" => i = 2 /\ log[1] = "write_doxyfile"
         /\ log[i] = "doxygen_returned" => i = 3 /\ log[2] = "call_doxygen"
         /\ log[i] \in ParseEvents => i > 3 /\ log[3] = "doxygen_returned"
    /\ pc = "doxygen_running" =>
         /\ rc.doxyfile_name \in DOMAIN disk
         /\ disk[rc.doxyfile_name] = dox_dict2str(rc.doxygen_config, rc.config_order)
    /\ (env # env0 \/ classes # EmptyDict \/ funcs # EmptyDict \/ parsed # EmptyDict) =>
         Len(log) > 3 /\ log[3] = "doxygen_returned" /\ log[4] = "parse_index"

\* A run that went through every step and wrote to the registry.
C6_Witness ==
    /\ pc = "done"
    /\ env # env0
    /\ \E i \in DOMAIN log : log[i] = "write_method_docstring"

\* C9: the index is read-only once parse_index_xml has returned: the class
\* index and the function index stay what parse_index_xml returned, so that a
\* class that occurs again in rc.classes is parsed from the same file.
C9_IndexReadOnly ==
    LET r == parse_index_xml(xml_dir(rc.builddir) \o sep \o "index.xml", disk)
    IN (\E i \in DOMAIN log : log[i] = "parse_index") /\ r.ok =>
         classes = r.val.classes /\ funcs = r.val.funcs

\* The members a parsed class lists that no section of it holds.
MissingMembers(d) ==
    {n \in Range(d.members.methods) \cup Range(d.members.variables) :
        \A k \in GroupKeys(d, "func") \cup GroupKeys(d, "attrib") : n \notin DOMAIN d[k]}

\* C10: when a variable or a method listed in the members of a parsed class
\* has no entry in any section, class_docstr returns a docstring that lists
\* the member; it does not fail.
C10_MissingMemberDegrades ==
    (parsed # EmptyDict /\ MissingMembers(parsed.data) # {}) =>
      LET r == class_docstr(parsed.data, FALSE, parsed.ivar_keys, parsed.func_grp_keys)
      IN r.ok /\ \A n \in MissingMembers(parsed.data) : Contains(r.val, n)

\* (module, symbol) is a class, or a free function, the run control lists.
ListedClass(mod, sym) ==
    \E i \in DOMAIN rc.classes : rc.classes[i][1] = sym /\ rc.classes[i][3] = mod

ListedFunction(mod, sym) ==
    \E i \in DOMAIN rc.functions : rc.functions[i][1] = sym /\ rc.functions[i][3] = mod

\* The entry e holds under key k something the entry e0 did not.
Changed(e0, e, k) == k \notin DOMAIN e0 \/ e[k] # e0[k]

\* The method names of the parsed class that have an earlier docstring and no
\* match in the function sections.
KeptMethods(old) == {m \in DOMAIN old.methods : MethodM(m) = {}}

\* C19: execute changes the registry only at the docstrings key of classes
\* that are listed and found in the index and at the docstring key of listed
\* free functions; every other module, symbol and key is as it was, and for
\* the class execute has parsed, the earlier docstrings.methods entry of a
\* method without match keeps its value.
C19_RegistryFrame ==
    /\ DOMAIN env = DOMAIN env0
    /\ \A mod \in DOMAIN env0 :
         /\ DOMAIN env[mod] = DOMAIN env0[mod]
         /\ \A sym \in DOMAIN env0[mod] :
              /\ DOMAIN env0[mod][sym] \subseteq DOMAIN env[mod][sym]
              /\ \A k \in DOMAIN env[mod][sym] :
                    Changed(env0[mod][sym], env[mod][sym], k) =>
                       \/ k = "docstrings" /\ ListedClass(mod, sym) /\ sym \in DOMAIN classes
                       \/ k = "docstring" /\ ListedFunction(mod, sym)
              /\ (/\ "docstrings" \in DOMAIN env0[mod][sym]
                  /\ ListedClass(mod, sym)
                  /\ parsed # EmptyDict
                  /\ parsed.data.kls_name = "ns::" \o sym)
                 => \A m \in KeptMethods(env0[mod][sym].docstrings) :
                       /\ m \in DOMAIN env[mod][sym].docstrings.methods
                       /\ env[mod][sym].docstrings.methods[m]
                             = env0[mod][sym].docstrings.methods[m]

\* execute has ended after it replaced the docstring of class A and of its
\* method Foo; the earlier text of Baz, which has no match, is still there
C19_Witness ==
    /\ pc = "done"
    /\ "docstrings" \in DOMAIN env0["m"]["A"]
    /\ env["m"]["A"].docstrings.class # env0["m"]["A"].docstrings.class
    /\ env["m"]["A"].docstrings.methods["Foo"] # "old text of Foo"
    /\ env["m"]["A"].docstrings.methods["Baz"] = "old text of Baz"
    /\ env["n"] = env0["n"]

\* The positions of the line ends of text, with the position before its
\* first and after its last character.
LineEnds(text) == {0, Len(text) + 1} \cup {i \in 1..Len(text) : CharAt(text, i) = "\n"}

\* The longest line of text.
LongestLine(text) ==
    LET ends == LineEnds(text)
    IN Max({Min({j \in ends : j > i}) - i - 1 : i \in ends \ {Len(text) + 1}})

\* The docstrings of entry e that entry e0, the same symbol before execute,
\* did not hold: the class docstring, the method docstrings, the function
\* docstring.
WrittenClass(e0, e) ==
    IF "docstrings" \in DOMAIN e /\ "class" \in DOMAIN e.docstrings
       /\ ("docstrings" \notin DOMAIN e0 \/ e.docstrings.class # e0.docstrings.class)
    THEN {e.docstrings.class} ELSE {}

WrittenMethods(e0, e) ==
    IF "docstrings" \notin DOMAIN e THEN {}
    ELSE {e.docstrings.methods[m] :
             m \in {k \in DOMAIN e.docstrings.methods :
                       \/ "docstrings" \notin DOMAIN e0
                       \/ k \notin DOMAIN e0.docstrings.methods
                       \/ e.docstrings.methods[k] # e0.docstrings.methods[k]}}

WrittenFunction(e0, e) == IF "docstring" \in DOMAIN e THEN {e.docstring} ELSE {}

C21_WitnessFunction ==
    \E sym \in {"f", "g"} :
        /\ WrittenFunction(env0["m"][sym], env["m"][sym]) # {}
        /\ LongestLine(env["m"][sym].docstring) \in 60..68

-----------------------------------------------------------------------------
(* Properties of the configuration pipeline, checked under SpecCfg.        *)

ForcedKeys == {"PROJECT_NAME", "OUTPUT_DIRECTORY", "INPUT"}

ValueText(v) == IF IsTrue(v) THEN "YES" ELSE IF IsFalse(v) THEN "NO" ELSE Format(v)

\* C8: the text dox_dict2str returns has exactly one line `KEY = value` per
\* key of the mapping, the key in upper case, True written YES, False written
\* NO, every other value unchanged, and no empty line at the end.
C8_OneLinePerKey ==
    cpc = "written" =>
      /\ SplitLines(ctext) =
           [i \in DOMAIN corder |-> Upper(corder[i]) \o " = " \o ValueText(cfg[corder[i]])]
      /\ ~EndsWith(ctext, "\n")

-----------------------------------------------------------------------------
(* Properties of the functions called on their own, checked under SpecFn.  *)

Returned(fn) == fpc = "returned" /\ fcall.fn = fn

\* The body of the Methods section of a class docstring.
MethodsSection(text) ==
    Split(Split(text, "\n\nMethods\n-------\n")[2], "\nNotes\n-----\n")[1]

\* The names the Methods section lists, line by line.
ListedMethods(text) ==
    LET ls == Front(Split(MethodsSection(text), "\n"))
    IN [i \in DOMAIN ls |-> Split(ls[i], " : ")[1]]

\* The distinct names in alphabetical order, the last one moved to the
\* second place.
SortedLastToSecond(names) ==
    LET s == Sorted(names)
    IN IF Len(s) < 2 THEN s
       ELSE <<s[1], s[Len(s)]>> \o SubSeq(s, 2, Len(s) - 1)

NonBlank(lines) == SelectSeq(lines, LAMBDA l : l # "")

ParametersLines(text) ==
    NonBlank(Split(Split(Split(text, "Parameters\n----------\n")[2],
                         "Returns\n-------\n")[1], "\n"))

ReturnsLines(text) == NonBlank(Split(Split(text, "Returns\n-------\n")[2], "\n"))

\* The return values a function description declares.
ReturnValues(func_dict) ==
    IF ~isinstance_str(func_dict.ret_type) THEN func_dict.ret_type
    ELSE IF func_dict.ret_type = None THEN <<>> ELSE <<func_dict.ret_type>>

\* C12: in the docstring func_docstr returns, the body of the Parameters
\* section is the single line None when the description has no parameters and
\* otherwise holds one entry `name : type` per parameter, in their order; the
\* body of the Returns section is the single line None when there is no return
\* value and otherwise the lines res1 : T1, res2 : T2, ... one per return value.
C12_ParametersAndReturns ==
    (Returned("func_docstr") /\ fret.ok) =>
        LET d == fcall.arg.func_dict
            P == ParametersLines(fret.val)
            entries == SelectSeq(P, LAMBDA l : Contains(l, " : "))
            R == ReturnsLines(fret.val)
            values == ReturnValues(d)
        IN /\ d.args = <<>> => P = <<"None">>
           /\ d.args # <<>> =>
                /\ "None" \notin Range(P)
                /\ Len(entries) = Len(d.args)
                /\ \A i \in DOMAIN entries :
                      entries[i] = d.args[i].name \o " : " \o d.args[i].type
           /\ values = <<>> => R = <<"None">>
           /\ values # <<>> =>
                R = [i \in DOMAIN values |-> "res" \o Str(i) \o " : " \o values[i]]

\* a function of two parameters and two return values: two entries, res1, res2
C12_Witness ==
    /\ Returned("func_docstr") /\ fret.ok
    /\ Len(fcall.arg.func_dict.args) = 2
    /\ ReturnsLines(fret.val) = <<"res1 : int", "res2 : double">>
    /\ Len(ParametersLines(fret.val)) > 2

\* no parameter and no return value: None and None
C12_WitnessNone ==
    /\ Returned("func_docstr") /\ fret.ok
    /\ ParametersLines(fret.val) = <<"None">>
    /\ ReturnsLines(fret.val) = <<"None">>

\* The texts a parameter list gives for the parameter name n.
GivenTexts(items, n) == {items[i].desc : i \in {j \in DOMAIN items : items[j].name = n}}

\* A two-paragraph detailed description whose second paragraph holds a
\* parameter list that names every declared parameter.
TwoParagraphs(f_xml) ==
    /\ Len(f_xml.detaileddescription) = 2
    /\ f_xml.detaileddescription[2].parameterlist # <<>>
    /\ \A i \in DOMAIN f_xml.param :
          GivenTexts(f_xml.detaileddescription[2].parameterlist[1],
                     f_xml.param[i].declname) # {}

C14_DescriptionsOnlyWithTwoParagraphs ==
    (Returned("_parse_func") /\ fret.ok) =>
        LET dd_paras == fcall.arg.detaileddescription
            described == \E i \in DOMAIN fret.val.args : "desc" \in DOMAIN fret.val.args[i]
        IN /\ described => Len(dd_paras) = 2
           /\ Len(dd_paras) = 1 => fret.val.detaileddescription = dd_paras[1].text
           /\ Len(dd_paras) \notin {1, 2} => fret.val.detaileddescription = ""

\* three paragraphs, the second with a parameter list, and declared parameters:
\* the text is empty and no entry has a description
C14_Witness ==
    /\ Returned("_parse_func") /\ fret.ok
    /\ Len(fcall.arg.detaileddescription) = 3
    /\ fcall.arg.detaileddescription[2].parameterlist # <<(<<>>)>>
    /\ Len(fret.val.args) = 2
    /\ fret.val.detaileddescription = ""
    /\ \A i \in DOMAIN fret.val.args : "desc" \notin DOMAIN fret.val.args[i]

\* one paragraph that holds a parameter list: its text, and no description
C14_WitnessOne ==
    /\ Returned("_parse_func") /\ fret.ok
    /\ Len(fcall.arg.detaileddescription) = 1
    /\ fcall.arg.detaileddescription[1].parameterlist \notin {<<>>, <<(<<>>)>>}
    /\ Len(fret.val.args) = 1
    /\ fret.val.detaileddescription = "One."
    /\ "desc" \notin DOMAIN fret.val.args[1]

\* C15: no line a wrapper produces is longer than the wrapper's width (68 for
\* wrap_68, 64 for wrap_64, 64 with the hanging indent for attrib_wrap), also
\* for a text without whitespace; the empty text gives the empty output.
C15_LineWidth ==
    Returned("fill") =>
        /\ \A l \in Range(Split(fret.val, "\n")) : Len(l) <= fcall.arg.wrapper.width
        /\ fcall.arg.text = "" => fret.val = ""

\* a word of 70 characters alone is broken in two, and the list wrapper
\* indents the second line by four columns
C15_Witness ==
    /\ Returned("fill")
    /\ fcall.arg.wrapper = attrib_wrap
    /\ fcall.arg.text = Repeat("y", 70)
    /\ Split(fret.val, "\n") = <<Repeat("y", 64), "    " \o Repeat("y", 6)>>

\* The index document of a call of parse_index_xml, its namespaces in
\* document order, and the function members of a namespace.
IndexDoc == fcall.arg.files["build/xml/index.xml"]
DocNamespaces == SelectSeq(IndexDoc, LAMBDA c : c.kind = "namespace")
FuncMembers(c) == SelectSeq(c.members, LAMBDA x : x.kind = "function")

\* The key the claim gives member j of the function members ms: its name N
\* when it is the first of that name, else N followed by the count k of the
\* earlier members named N.
ClaimedKey(ms, j) ==
    LET k == Cardinality({i \in 1..(j - 1) : ms[i].name = ms[j].name})
    IN IF k = 0 THEN ms[j].name ELSE ms[j].name \o Str(k)

\* Member j2 of namespace n2 is indexed after member j of namespace n.
After(n2, j2, n, j) == n2 > n \/ (n2 = n /\ j2 > j)

AllFuncMembers ==
    {p \in (DOMAIN DocNamespaces) \X (1..MaxOverloads) :
        p[2] \in DOMAIN FuncMembers(DocNamespaces[p[1]])}

DocClasses == SelectSeq(IndexDoc, LAMBDA c : c.kind = "class")

\* C20: the indexes parse_index_xml returns lose no entity: the function index
\* has one entry per function member of any namespace of the document, and
\* the class index has one entry per class compound.
C20_NoEntityLost ==
    (Returned("parse_index_xml") /\ fret.ok) =>
        /\ Cardinality(DOMAIN fret.val.funcs) = Cardinality(AllFuncMembers)
        /\ Cardinality(DOMAIN fret.val.classes) = Len(DocClasses)

\* C17: _parse_variable does not fail on a variable fragment, and the detailed
\* description it returns is a string: the text of the first paragraph when
\* there is a paragraph, the empty string when there is none.
C17_VariableDescriptionIsString ==
    Returned("_parse_variable") =>
        /\ fret.ok
        /\ fret.val.detaileddescription # None
        /\ fcall.arg.detaileddescription = <<>> => fret.val.detaileddescription = ""
        /\ fcall.arg.detaileddescription # <<>> =>
              fret.val.detaileddescription = fcall.arg.detaileddescription[1].text

\* The memberdefs of the public-func section of the class file parse_class
\* reads.
PublicFuncs == fcall.arg.files["build/xml/classA.xml"].sections[1].members

\* C18: parse_class overwrites no member description of a section: the
\* section dict has one key per memberdef, the member's name when no earlier
\* member of the section has that name and otherwise the name followed by the
\* count of the earlier members of that name (Foo, Foo1, ..., Foo10, Foo11).
C18_MemberKeys ==
    (Returned("parse_class") /\ fret.ok) =>
        /\ Cardinality(DOMAIN fret.val["public-func"]) = Len(PublicFuncs)
        /\ DOMAIN fret.val["public-func"] =
              {ClaimedKey(PublicFuncs, j) : j \in DOMAIN PublicFuncs}

\* What the code does keep: one key per memberdef, whatever the names.
C18_NoneOverwritten ==
    (Returned("parse_class") /\ fret.ok) =>
        Cardinality(DOMAIN fret.val["public-func"]) = Len(PublicFuncs)

====
